---- MODULE Spec2Model ----
(***************************************************************************)
(* Model of gemini_bot.py: one run of the DCA bot.  Confirmation prompt,   *)
(* market lookup, midmarket price, order submission and the fill monitor.  *)
(*                                                                         *)
(* Decimals are modelled as integers counting "atoms": the smallest        *)
(* decimal place the model resolves (10^-UnitPlaces of one currency        *)
(* unit).  An increment is a Decimal kept with its coefficient and its     *)
(* exponent (counted in atom places), because Decimal.quantize(q) rounds   *)
(* to the EXPONENT of q, not to a multiple of q's value.  The decimal      *)
(* context precision (28 digits) is far beyond every value of the model,   *)
(* so divisions are exact rationals that are rounded once.                 *)
(***************************************************************************)
EXTENDS Integers, Sequences, FiniteSets, TLC

VARIABLES pc, args, symbol, book, response, calls,
          base_increment, quote_increment, amount_currency_is_quote_currency,
          bid, ask, midmarket_price, orders_sent,
          order, exch, total_wait_time, snapshots

vars == <<pc, args, symbol, book, response, calls,
          base_increment, quote_increment, amount_currency_is_quote_currency,
          bid, ask, midmarket_price, orders_sent,
          order, exch, total_wait_time, snapshots>>

(***************************************************************************)
(* Bounds of the model.                                                    *)
(***************************************************************************)
\* decimal places of one currency unit that an atom resolves
UnitPlaces == 2
\* best bid of the generated books, in atoms
MaxBookPrice == 8
\* best ask - best bid of the generated books, in atoms
MaxSpread == 2
\* requested amount, in atoms
MaxAmount == 7
\* largest exponent (in atom places) of a raw increment before normalize()
MaxIncExp == 0
\* largest -warn_after value
MaxWarnAfter == 180
\* remaining_amount of a snapshot, in abstract units
MaxRemaining == 2

(***************************************************************************)
(* Decimal arithmetic.                                                     *)
(***************************************************************************)
RECURSIVE Pow10(_)
Pow10(n) == IF n <= 0 THEN 1 ELSE 10 * Pow10(n - 1)

\* Decimal.normalize(): strip trailing zeros of the coefficient
RECURSIVE Normalize(_)
Normalize(d) ==
    IF d.coef # 0 /\ d.coef % 10 = 0
    THEN Normalize([coef |-> d.coef \div 10, exp |-> d.exp + 1])
    ELSE d

\* value of a Decimal [coef, exp] in atoms
Value(d) == d.coef * Pow10(d.exp)

\* n/d rounded to an integer, n >= 0, d > 0
RoundHalfEven(n, d) ==
    LET q == n \div d
        r == n % d
    IN  IF r > d - r \/ (r = d - r /\ q % 2 = 1) THEN q + 1 ELSE q

RoundDown(n, d) == n \div d

RoundUp(n, d) == IF n % d = 0 THEN n \div d ELSE (n \div d) + 1

Round(n, d, rounding) ==
    CASE rounding = "ROUND_HALF_EVEN" -> RoundHalfEven(n, d)
      [] rounding = "ROUND_DOWN" -> RoundDown(n, d)
      [] rounding = "ROUND_UP" -> RoundUp(n, d)

\* (n/d).quantize(q, rounding): the rational n/d (in atoms) rounded to the
\* exponent of q; the result is again in atoms
QuantizeRatio(n, d, q, rounding) ==
    Round(n, d * Pow10(q.exp), rounding) * Pow10(q.exp)

\* x.quantize(q, rounding)
Quantize(x, q, rounding) == QuantizeRatio(x, 1, q, rounding)

\* math.floor(n / d) for n >= 0, d > 0
Floor(n, d) == n \div d

\* number of decimal digits of x >= 0
RECURSIVE Digits(_)
Digits(x) == IF x < 10 THEN 1 ELSE 1 + Digits(x \div 10)

\* significant decimal digits a binary64 float keeps exactly
DBL_DIG == 15

\* float(x): a decimal of at most DBL_DIG significant digits is kept (its
\* repr is the same decimal); a longer one loses its low digits
ToFloat(x) ==
    IF Digits(x) <= DBL_DIG THEN x
    ELSE LET cut == Pow10(Digits(x) - DBL_DIG)
         IN  RoundHalfEven(x, cut) * cut

(***************************************************************************)
(* Inputs.                                                                 *)
(***************************************************************************)
Sides == {"buy", "sell"}

\* currencies a user may name; the market below is BTCUSD
Currencies == {"BTC", "USD", "EUR"}

\* raw coefficients of the increments the exchange reports
IncCoefs == {1, 5, 10}

RawIncrements == {[coef |-> c, exp |-> e] : c \in IncCoefs, e \in 0..MaxIncExp}

\* what symbol_details returns
Symbols(ticks, quotes) ==
    {[base_currency |-> "BTC", quote_currency |-> "USD",
      tick_size |-> t, quote_increment |-> q] : t \in ticks, q \in quotes}

\* the books of the spec's two scenarios, in atoms of 0.01
ExampleBooks == {[bid |-> 1999950, ask |-> 2000050],
                 [bid |-> 1999951, ask |-> 2000052]}

SmallBooks == {[bid |-> b, ask |-> b + s] : b \in 1..MaxBookPrice, s \in 0..MaxSpread}

\* answers to the confirmation prompt
Responses == {"Y", "y", "N", ""}
NotAsked == "not asked"

\* the sleep of one monitor iteration
wait_time == 60

WarnAfters == {w \in -1..MaxWarnAfter : (w + 1) % wait_time \in {0, 1, 2}}

\* an order as the exchange reports it
Snapshots == [remaining_amount : 0..MaxRemaining, is_cancelled : BOOLEAN]
NoOrder == [remaining_amount |-> -1, is_cancelled |-> FALSE]
NoIncrement == [coef |-> 0, exp |-> 0]

Args(sandboxes, jobs, amounts, currencies, warns) ==
    [sandbox_mode : sandboxes, job_mode : jobs, order_side : Sides,
     amount : amounts, amount_currency : currencies, warn_after : warns]

(***************************************************************************)
(* Initial state: the parsed arguments and the exchange's market.          *)
(***************************************************************************)
InitWith(argset, symbolset, bookset) ==
    /\ pc = "confirm"
    /\ args \in argset
    /\ symbol \in symbolset
    /\ book \in bookset
    /\ response = NotAsked
    /\ calls = <<>>
    /\ base_increment = NoIncrement
    /\ quote_increment = NoIncrement
    /\ amount_currency_is_quote_currency = FALSE
    /\ bid = 0
    /\ ask = 0
    /\ midmarket_price = 0
    /\ orders_sent = <<>>
    /\ order = NoOrder
    /\ exch = NoOrder
    /\ total_wait_time = 0
    /\ snapshots = <<>>

\* every run mode and deadline, one market and the two example books
Init ==
    InitWith(Args(BOOLEAN, BOOLEAN, {MaxAmount}, Currencies, WarnAfters),
             Symbols({[coef |-> 1, exp |-> 0]}, {[coef |-> 10, exp |-> 0]}),
             ExampleBooks \cup {[bid |-> 1, ask |-> 1 + MaxSpread]})

\* every increment, book and amount, one run mode and deadline
InitPricing ==
    InitWith(Args({FALSE}, BOOLEAN, 1..MaxAmount, Currencies, {0}),
             Symbols(RawIncrements, RawIncrements),
             ExampleBooks \cup SmallBooks)

(***************************************************************************)
(* The program.                                                            *)
(***************************************************************************)
\* a prompt that also takes a lower-case y
Confirmed_AnyCase(r) == r \in {"Y", "y"}

\* line 94: the answer that lets the run go on
Confirmed(r) == ~(r # "Y")

\* lines 92-96: the confirmation prompt
Confirm ==
    /\ pc = "confirm"
    /\ IF ~args.sandbox_mode /\ ~args.job_mode
       THEN \E r \in Responses :
                /\ response' = r
                /\ pc' = IF Confirmed(r) THEN "resolve" ELSE "unconfirmed"
       ELSE /\ response' = response
            /\ pc' = "resolve"
    /\ UNCHANGED <<args, symbol, book, calls, base_increment, quote_increment,
                   amount_currency_is_quote_currency, bid, ask, midmarket_price,
                   orders_sent, order, exch, total_wait_time, snapshots>>

\* a lookup without the final else: any other currency counts as the base
AmountCurrencyKind_NoElse(currency, details) ==
    IF currency = details.quote_currency THEN "quote" ELSE "base"

\* lines 119-124: which currency of the market the amount is in
AmountCurrencyKind(currency, details) ==
    IF currency = details.quote_currency THEN "quote"
    ELSE IF currency = details.base_currency THEN "base"
    ELSE "neither"

\* lines 112-124: market lookup and the check of amount_currency
ResolveMarket ==
    /\ pc = "resolve"
    /\ calls' = Append(calls, "symbol_details")
    /\ base_increment' = Normalize(symbol.tick_size)
    /\ quote_increment' = Normalize(symbol.quote_increment)
    /\ amount_currency_is_quote_currency' =
           (AmountCurrencyKind(args.amount_currency, symbol) = "quote")
    /\ pc' = IF AmountCurrencyKind(args.amount_currency, symbol) = "neither"
             THEN "bad_currency" ELSE "price"
    /\ UNCHANGED <<args, symbol, book, response, bid, ask, midmarket_price,
                   orders_sent, order, exch, total_wait_time, snapshots>>

\* lines 137-141: the price from the quantized bid and ask
SideRounding(side) == IF side = "buy" THEN "ROUND_DOWN" ELSE "ROUND_UP"

\* the midpoint quantized directly, without the floor to an increment multiple
MidmarketPrice_NoFloor(side, b, a, q) ==
    QuantizeRatio(a + b, 2, q, SideRounding(side))

\* a sell price taken one increment above the floor
MidmarketPrice_SellNextTick(side, b, a, q) ==
    IF side = "buy" THEN Floor(a + b, 2 * Value(q)) * Value(q)
    ELSE (Floor(a + b, 2 * Value(q)) + 1) * Value(q)

\* a sell price that is the ceiling of the midpoint in increments
MidmarketPrice_SellCeiling(side, b, a, q) ==
    IF side = "buy" THEN Floor(a + b, 2 * Value(q)) * Value(q)
    ELSE RoundUp(a + b, 2 * Value(q)) * Value(q)

MidmarketPrice(side, b, a, q) ==
    Quantize(Floor(a + b, 2 * Value(q)) * Value(q), q, SideRounding(side))

\* lines 131-146 and 172
CalculateMidmarketPrice ==
    /\ pc = "price"
    /\ calls' = Append(calls, "current_order_book")
    /\ bid' = Quantize(book.bid, quote_increment, "ROUND_HALF_EVEN")
    /\ ask' = Quantize(book.ask, quote_increment, "ROUND_HALF_EVEN")
    /\ midmarket_price' = MidmarketPrice(args.order_side, bid', ask', quote_increment)
    /\ pc' = "place"
    /\ UNCHANGED <<args, symbol, book, response, base_increment, quote_increment,
                   amount_currency_is_quote_currency, orders_sent, order, exch,
                   total_wait_time, snapshots>>

\* lines 155 and 162: the amount argument of new_order, in atoms of the base
\* currency (amount / price is a number of base units)
\* a size that is never divided by the price
OrderSize_NoDivide(amount, price, is_quote, inc) ==
    ToFloat(Quantize(amount, inc, "ROUND_HALF_EVEN"))

\* a size that is always divided by the price
OrderSize_AlwaysDivide(amount, price, is_quote, inc) ==
    ToFloat(QuantizeRatio(amount * Pow10(UnitPlaces), price, inc, "ROUND_HALF_EVEN"))

OrderSize(amount, price, is_quote, inc) ==
    IF is_quote
    THEN ToFloat(QuantizeRatio(amount * Pow10(UnitPlaces), price, inc, "ROUND_HALF_EVEN"))
    ELSE ToFloat(Quantize(amount, inc, "ROUND_HALF_EVEN"))

\* a handler that tries the order again
AfterRejection_Retry == "place"

\* where the run goes when new_order raises GeminiRequestException
AfterRejection == "rejected"

\* lines 149-169 and 173-181
PlaceOrder ==
    /\ pc = "place"
    /\ IF amount_currency_is_quote_currency /\ midmarket_price = 0
       THEN \* amount / price raises decimal.DivisionByZero: no call is made
            /\ pc' = "crashed"
            /\ UNCHANGED <<calls, orders_sent, order, exch, snapshots>>
       ELSE /\ calls' = Append(calls, "new_order")
            /\ orders_sent' = Append(orders_sent,
                   [market |-> symbol.base_currency \o symbol.quote_currency,
                    side |-> args.order_side,
                    amount |-> OrderSize(args.amount, midmarket_price,
                                         amount_currency_is_quote_currency,
                                         base_increment),
                    price |-> midmarket_price])
            /\ \/ /\ pc' = AfterRejection
                  /\ UNCHANGED <<order, exch, snapshots>>
               \/ \E s \in Snapshots :
                      /\ order' = s
                      /\ exch' = s
                      /\ snapshots' = Append(snapshots, s)
                      /\ pc' = "monitor"
    /\ total_wait_time' = 0
    /\ UNCHANGED <<args, symbol, book, response, base_increment, quote_increment,
                   amount_currency_is_quote_currency, bid, ask, midmarket_price>>

\* a deadline that is hit as soon as the wait reaches warn_after
TimedOut_AtDeadline(total, warn_after) == total >= warn_after

\* line 184
TimedOut(total, warn_after) == total > warn_after

\* a loop body without the is_cancelled exit
MonitorOutcome_NoCancelExit(o, total, warn_after) ==
    IF ~(o.remaining_amount > 0) THEN "FILLED"
    ELSE IF TimedOut(total, warn_after) THEN "TIMED_OUT"
    ELSE "sleeping"

\* a loop that tests the deadline before the remaining amount
MonitorOutcome_DeadlineFirst(o, total, warn_after) ==
    IF TimedOut(total, warn_after) THEN "TIMED_OUT"
    ELSE IF ~(o.remaining_amount > 0) THEN "FILLED"
    ELSE IF o.is_cancelled THEN "CANCELLED"
    ELSE "sleeping"

\* lines 183-193 and 198-202: one evaluation of the loop condition and of the
\* two exits of the loop body
MonitorOutcome(o, total, warn_after) ==
    IF ~(o.remaining_amount > 0) THEN "FILLED"
    ELSE IF TimedOut(total, warn_after) THEN "TIMED_OUT"
    ELSE IF o.is_cancelled THEN "CANCELLED"
    ELSE "sleeping"

\* a monitor that cancels the order it gives up on
ExchangeAfterExit_CancelOnTimeout(outcome, e) ==
    IF outcome = "TIMED_OUT" THEN [e EXCEPT !.is_cancelled = TRUE] ELSE e

\* lines 185-186, 190-191 and 199-202: every exit of the monitor prints and
\* exits; the order on the exchange is left as it is
ExchangeAfterExit(outcome, e) == e

MonitorCheck ==
    /\ pc = "monitor"
    /\ pc' = MonitorOutcome(order, total_wait_time, args.warn_after)
    /\ exch' = ExchangeAfterExit(pc', exch)
    /\ UNCHANGED <<args, symbol, book, response, calls, base_increment,
                   quote_increment, amount_currency_is_quote_currency, bid, ask,
                   midmarket_price, orders_sent, order, total_wait_time,
                   snapshots>>

\* a wait that accumulates half of what was slept
NextWait_Half(total) == total + (wait_time \div 2)

\* line 195
NextWait(total) == total + wait_time

\* a poll that fetches the book again before asking for the order
CallsOfPoll_Reprice(c) == c \o <<"current_order_book", "order_status">>

\* line 196: the one exchange call of an iteration
CallsOfPoll(c) == Append(c, "order_status")

\* lines 194-196: the sleep ends, the order is polled
SleepAndPoll ==
    /\ pc = "sleeping"
    /\ total_wait_time' = NextWait(total_wait_time)
    /\ calls' = CallsOfPoll(calls)
    /\ order' = exch
    /\ snapshots' = Append(snapshots, exch)
    /\ pc' = "monitor"
    /\ UNCHANGED <<args, symbol, book, response, base_increment, quote_increment,
                   amount_currency_is_quote_currency, bid, ask, midmarket_price,
                   orders_sent, exch>>

\* the exchange and its other users change the order while the bot sleeps
ExchangeMutates ==
    /\ pc = "sleeping"
    /\ exch' \in Snapshots \ {exch}
    /\ UNCHANGED <<pc, args, symbol, book, response, calls, base_increment,
                   quote_increment, amount_currency_is_quote_currency, bid, ask,
                   midmarket_price, orders_sent, order, total_wait_time, snapshots>>

Program ==
    \/ Confirm
    \/ ResolveMarket
    \/ CalculateMidmarketPrice
    \/ PlaceOrder
    \/ MonitorCheck
    \/ SleepAndPoll

Next == Program \/ ExchangeMutates

Spec == Init /\ [][Next]_vars

\* the interpreter always runs the next statement
FairSpec == Spec /\ WF_vars(Program)

NextPricing ==
    \/ Confirm
    \/ ResolveMarket
    \/ CalculateMidmarketPrice
    \/ PlaceOrder

SpecPricing == InitPricing /\ [][NextPricing]_vars

(***************************************************************************)
(* Properties.                                                             *)
(***************************************************************************)
Count(seq, x) == Cardinality({i \in 1..Len(seq) : seq[i] = x})

Polls == Count(calls, "order_status")

MonitorOutcomes == {"FILLED", "CANCELLED", "TIMED_OUT"}

\* the price has been computed
Priced == Count(calls, "current_order_book") = 1

\* every snapshot of the order so far is open and unfilled
AllPending ==
    \A i \in 1..Len(snapshots) :
        snapshots[i].remaining_amount > 0 /\ ~snapshots[i].is_cancelled

\* twice the raw midpoint of the book is not a multiple of twice the increment
MidpointOffIncrement == (book.bid + book.ask) % (2 * Value(quote_increment)) # 0

\* C1: when the raw midpoint m of the book is not a multiple of the price
\* increment p, a buy is priced at the largest multiple of p that is <= m and
\* a sell at the smallest multiple of p that is >= m.
C1_DirectionalBias ==
    (Priced /\ MidpointOffIncrement) =>
        LET p == Value(quote_increment)
            twice_m == book.bid + book.ask
        IN  /\ midmarket_price % p = 0
            /\ args.order_side = "buy" =>
                   2 * midmarket_price < twice_m /\ twice_m < 2 * (midmarket_price + p)
            /\ args.order_side = "sell" =>
                   2 * (midmarket_price - p) < twice_m /\ twice_m < 2 * midmarket_price

\* C2: while every snapshot is open and unfilled and warn_after >= 0, the
\* monitor goes on sleeping only while the accumulated wait is within
\* warn_after, never polls more than floor(warn_after / 60) + 1 times, and
\* ends only as TIMED_OUT, after exactly floor(warn_after / 60) + 1 polls, at
\* the first accumulated wait that exceeds warn_after.
C2_TimedOutAfterExactPolls ==
    (snapshots # <<>> /\ AllPending /\ args.warn_after >= 0) =>
        /\ Polls <= (args.warn_after \div 60) + 1
        /\ pc = "sleeping" => total_wait_time <= args.warn_after
        /\ pc \notin {"monitor", "sleeping"} =>
               /\ pc = "TIMED_OUT"
               /\ Polls = (args.warn_after \div 60) + 1
               /\ total_wait_time = 60 * Polls
               /\ total_wait_time > args.warn_after
               /\ total_wait_time - 60 <= args.warn_after

C2_Witness ==
    /\ pc = "TIMED_OUT"
    /\ AllPending
    /\ args.warn_after = 120
    /\ Polls = 3

\* C3 as stated: once the latest snapshot is cancelled and the accumulated
\* wait is within warn_after, the run is at the loop head or has ended as
\* CANCELLED.
C3_CancelledReported ==
    (order.is_cancelled /\ total_wait_time <= args.warn_after) =>
        pc \in {"monitor", "CANCELLED"}

\* C3, amended: once the latest snapshot is cancelled with remaining_amount > 0
\* and the accumulated wait is within warn_after, the run is at the loop head
\* or has ended as CANCELLED: it neither sleeps on nor reports FILLED.
C3_CancelledWithRemainderReported ==
    (order.is_cancelled /\ order.remaining_amount > 0
        /\ total_wait_time <= args.warn_after) =>
        pc \in {"monitor", "CANCELLED"}

C3_Witness ==
    /\ pc = "CANCELLED"
    /\ Polls = 3
    /\ order.is_cancelled
    /\ order.remaining_amount > 0
    /\ ~snapshots[1].is_cancelled
    /\ exch = order

ExchangeCalls == {"symbol_details", "current_order_book", "new_order", "order_status"}

\* C4: the program only ever calls symbol_details, current_order_book,
\* new_order and order_status; no step of the program changes the order on
\* the exchange once it exists; and when the monitor has ended, the order on
\* the exchange is as the last snapshot showed it.
C4_OrderLeftAlone ==
    /\ [](\A i \in 1..Len(calls) : calls[i] \in ExchangeCalls)
    /\ [][(exch # NoOrder /\ pc' # pc) => exch' = exch]_vars
    /\ [](pc \in MonitorOutcomes => exch = order)

C4_Witness ==
    /\ pc = "TIMED_OUT"
    /\ Polls > 0
    /\ exch.remaining_amount > 0
    /\ ~exch.is_cancelled

\* C5: the amount of every order sent is an exact multiple of the size
\* increment.
C5_SizeMultipleOfIncrement ==
    \A i \in 1..Len(orders_sent) :
        orders_sent[i].amount % Value(base_increment) = 0

\* C6: the limit price of every order sent is an exact multiple of the price
\* increment.
C6_PriceMultipleOfIncrement ==
    \A i \in 1..Len(orders_sent) :
        orders_sent[i].price % Value(quote_increment) = 0

C6_Witness ==
    /\ Len(orders_sent) = 1
    /\ quote_increment = [coef |-> 5, exp |-> 0]
    /\ orders_sent[1].price > 0
    /\ MidpointOffIncrement
    /\ args.order_side = "sell"

\* C7: new_order is called at most once; after a rejection exactly one
\* new_order and no order_status has been called, and the run makes no
\* further step.
C7_NoResubmission ==
    /\ [](Count(calls, "new_order") <= 1 /\ Len(orders_sent) <= 1)
    /\ [](pc = "rejected" =>
              Count(calls, "new_order") = 1 /\ Count(calls, "order_status") = 0)
    /\ [][pc = "rejected" => UNCHANGED vars]_vars

C7_Witness ==
    /\ pc = "rejected"
    /\ Count(calls, "new_order") = 1

\* C8: in a production run without job mode the prompt is answered before
\* anything else happens, new_order is reached only after the answer "Y", and
\* any other answer ends the run with no exchange call made; in sandbox or
\* job mode no answer is ever read.
C8_ConfirmationGate ==
    /\ (~args.sandbox_mode /\ ~args.job_mode) =>
           /\ pc # "confirm" => response \in Responses
           /\ Count(calls, "new_order") > 0 => response = "Y"
           /\ response \in Responses \ {"Y"} => (calls = <<>> /\ pc = "unconfirmed")
    /\ (args.sandbox_mode \/ args.job_mode) =>
           (response = NotAsked /\ pc # "unconfirmed")

C8_Witness ==
    /\ ~args.sandbox_mode
    /\ ~args.job_mode
    /\ response = "Y"
    /\ Count(calls, "new_order") = 1

\* C9: when amount_currency is neither the base nor the quote currency of the
\* market, the only exchange call ever made is the one symbol_details, and
\* the run ends right after it.
C9_UnknownCurrencyStops ==
    (args.amount_currency \notin {symbol.base_currency, symbol.quote_currency}) =>
        /\ calls \in {<<>>, <<"symbol_details">>}
        /\ orders_sent = <<>>
        /\ pc \in {"confirm", "unconfirmed", "resolve", "bad_currency"}
        /\ calls # <<>> => pc = "bad_currency"

C9_Witness ==
    /\ pc = "bad_currency"
    /\ args.amount_currency = "EUR"
    /\ calls = <<"symbol_details">>

\* C10: for warn_after >= 0 the monitor never polls more than
\* floor(warn_after / 60) + 1 times; a monitor that has ended with a snapshot
\* of remaining_amount 0 has ended as FILLED; and a monitor that has started
\* ends as FILLED, CANCELLED or TIMED_OUT.
C10_MonitorTerminates ==
    /\ [](args.warn_after >= 0 => Polls <= (args.warn_after \div 60) + 1)
    /\ []((pc \in MonitorOutcomes /\ order.remaining_amount = 0) => pc = "FILLED")
    /\ []((pc \notin {"monitor", "sleeping"} /\ order # NoOrder) => pc \in MonitorOutcomes)
    /\ (pc = "monitor") ~> (pc \in MonitorOutcomes)
    /\ (pc = "monitor" /\ order.remaining_amount = 0) ~> (pc = "FILLED")

C10_Witness ==
    /\ pc = "FILLED"
    /\ Polls = (args.warn_after \div 60) + 1
    /\ Polls = 3
    /\ snapshots[2].remaining_amount < snapshots[1].remaining_amount
    /\ snapshots[3].remaining_amount > 0

\* an order has been sent for an amount in the quote currency
QuoteOrderSent == Len(orders_sent) = 1 /\ amount_currency_is_quote_currency

\* C11: for a request in the quote currency, the submitted size times the
\* price differs from the requested amount by at most one size increment
\* times the price (sizes and amounts in atoms, a size atom being
\* 10^-UnitPlaces of a base unit).
C11_SizeWithinOneIncrement ==
    QuoteOrderSent =>
        LET size == orders_sent[1].amount
            price == orders_sent[1].price
            requested == args.amount * Pow10(UnitPlaces)
            diff == size * price - requested
        IN  /\ diff <= Value(base_increment) * price
            /\ -diff <= Value(base_increment) * price

C11_Witness ==
    /\ QuoteOrderSent
    /\ orders_sent[1].amount > 0
    /\ orders_sent[1].amount * orders_sent[1].price > args.amount * Pow10(UnitPlaces)
    /\ base_increment = [coef |-> 1, exp |-> 1]
    /\ orders_sent[1].price > 1

\* C12: the calls made so far are a prefix of symbol_details,
\* current_order_book, new_order followed by order_status calls only; an
\* order_status call is made only once new_order has returned an order; and
\* once computed, the quantized bid and ask and the limit price never change.
C12_CallOrder ==
    /\ [](LET n == Len(calls)
          IN  /\ n >= 1 => calls[1] = "symbol_details"
              /\ n >= 2 => calls[2] = "current_order_book"
              /\ n >= 3 => calls[3] = "new_order"
              /\ \A i \in 4..n : calls[i] = "order_status")
    /\ [](Polls > 0 => (order # NoOrder /\ Len(orders_sent) = 1))
    /\ [][Priced => (midmarket_price' = midmarket_price /\ bid' = bid /\ ask' = ask)]_vars

C12_Witness ==
    /\ calls = <<"symbol_details", "current_order_book", "new_order",
                 "order_status", "order_status">>
    /\ orders_sent[1].price = midmarket_price
    /\ pc = "monitor"

\* C13: when the raw midpoint of the book is an exact multiple of the price
\* increment, the computed price is exactly that midpoint, for a buy and for
\* a sell.
C13_AlignedMidpointKept ==
    (Priced /\ ~MidpointOffIncrement) => 2 * midmarket_price = book.bid + book.ask

C13_Witness ==
    /\ Priced
    /\ book = [bid |-> 1999950, ask |-> 2000050]
    /\ quote_increment = [coef |-> 1, exp |-> 0]
    /\ midmarket_price = 2000000
    /\ args.order_side = "sell"

\* an order has been sent for an amount in the base currency
BaseOrderSent == Len(orders_sent) = 1 /\ ~amount_currency_is_quote_currency

\* C14: for a request in the base currency, the submitted size is the
\* requested amount rounded half-even to the exponent of the size increment:
\* it is fixed by the amount and the increment alone, whatever the book and
\* the price.
C14_BaseSizeIgnoresPrice ==
    BaseOrderSent =>
        LET size == orders_sent[1].amount
            place == Pow10(base_increment.exp)
            diff == IF size >= args.amount THEN size - args.amount ELSE args.amount - size
        IN  /\ size % place = 0
            /\ 2 * diff <= place
            /\ 2 * diff = place => (size \div place) % 2 = 0

C14_Witness ==
    /\ BaseOrderSent
    /\ base_increment = [coef |-> 1, exp |-> 1]
    /\ orders_sent[1].amount > args.amount
    /\ orders_sent[1].price > 1
    /\ orders_sent[1].amount * orders_sent[1].price # args.amount * Pow10(UnitPlaces)

\* C15: for a buy and for a sell alike, the computed price is the largest
\* multiple of the price increment that is <= the midpoint of the quantized
\* bid and ask, so the side never changes the price.
C15_SideIgnored ==
    Priced =>
        LET p == Value(quote_increment)
        IN  /\ midmarket_price % p = 0
            /\ 2 * midmarket_price <= bid + ask
            /\ bid + ask < 2 * (midmarket_price + p)

C15_Witness ==
    /\ Priced
    /\ args.order_side = "sell"
    /\ book = [bid |-> 1999951, ask |-> 2000052]
    /\ quote_increment = [coef |-> 1, exp |-> 0]
    /\ midmarket_price = 2000001

\* C16: the state of the monitor after a test of the latest snapshot follows
\* the priority remaining_amount = 0, then accumulated wait > warn_after, then
\* is_cancelled, then sleep; the accumulated wait is 60 per poll made.
C16_OutcomePriority ==
    /\ total_wait_time = 60 * Polls
    /\ pc = "FILLED" => order.remaining_amount = 0
    /\ pc = "TIMED_OUT" =>
           (order.remaining_amount > 0 /\ total_wait_time > args.warn_after)
    /\ pc = "CANCELLED" =>
           (order.remaining_amount > 0 /\ total_wait_time <= args.warn_after
               /\ order.is_cancelled)
    /\ pc = "sleeping" =>
           (order.remaining_amount > 0 /\ total_wait_time <= args.warn_after
               /\ ~order.is_cancelled)

C16_Witness ==
    /\ pc = "FILLED"
    /\ total_wait_time > args.warn_after
    /\ args.warn_after >= 0
    /\ Polls = 2

====
